---- MODULE Spec2Model ----
(***************************************************************************)
(* Model of ProgrammableDownloader (src/src/index.ts): the crawl loop      *)
(* run/_processPage, the extraction helpers, _saveFiles and getOption.     *)
(*                                                                         *)
(* URLs are sequences of tokens: a scheme token ("https://", "http://",   *)
(* "data:"), the separators "/" and "?", and chunks of text that hold      *)
(* none of these.  JavaScript objects that the code shares by reference    *)
(* (the metadata objects) live in `heap` and are named by their index.     *)
(* undefined/null is the empty tuple <<>>, a defined value v is <<v>>.     *)
(***************************************************************************)
EXTENDS Integers, Sequences, FiniteSets, TLC

(***************************************************************************)
(* Bounds of the model.                                                    *)
(***************************************************************************)
\* longest list of seed URLs handed to the constructor
MaxSeeds == 2
\* most failures the environment injects in one execution: rejected requests,
\* throwing hooks, file system errors
MaxFaults == 1
\* longest list of '/'-separated segments of a file URL handed to _getFilename
MaxSegments == 4
\* largest file.nameLevel handed to _getFilename
MaxLevel == 3
\* most elements a metadata selector matches
MaxTexts == 3

(***************************************************************************)
(* Generic helpers for objects (functions with a finite domain of keys).   *)
(***************************************************************************)
EmptyObject == <<>>

Has(obj, key) == key \in DOMAIN obj

\* Object.assign(target, source) on values: source's keys win.
Assign(target, source) ==
  [k \in DOMAIN target \cup DOMAIN source |->
     IF k \in DOMAIN source THEN source[k] ELSE target[k]]

\* obj[key] = value
Put(obj, key, value) ==
  [k \in DOMAIN obj \cup {key} |-> IF k = key THEN value ELSE obj[k]]

\* the value of a const: the element of {e} (a bound name holds the value of
\* e, computed once)
The(S) == CHOOSE x \in S : TRUE

Range(seq) == {seq[i] : i \in 1..Len(seq)}

(***************************************************************************)
(* The web site the crawl runs against: the documents behind the page      *)
(* URLs, seen through the selectors the extractors use.                    *)
(***************************************************************************)
P0 == <<"https://", "ex.com", "/", "p0">>
P1 == <<"https://", "ex.com", "/", "p1">>
P2 == <<"https://", "ex.com", "/", "p2">>
PageUrls == {P0, P1, P2}

F1 == <<"https://", "ex.com", "/", "a%20a", "/", "c.jpg">>
F2 == <<"https://", "ex.com", "/", "a%20a", "/">>
F3 == <<"http://", "ex.com", "/", "a%20a", "/", "c.jpg", "?", "x=1">>
DataUri == <<"data:", "image/png;base64,AAAA">>

\* $(selector).toArray() on the document of `url`, with each element's
\* attributes: the elements matched by a file or page selector.
Elements(url, selector) ==
  CASE selector = "a.page" /\ url = P0 ->
         << [name |-> "top"] >>
    [] selector = "a.page" /\ url = P1 ->
         << [href |-> P2], [href |-> <<"p2">>] >>
    [] selector = "a.page" /\ url = P2 ->
         << [href |-> <<"/", "p0">>] >>
    [] selector = "a.next" /\ url = P0 ->
         << [href |-> P1] >>
    [] selector = "a.next" /\ url = P1 ->
         << [href |-> P2] >>
    [] selector = "img" /\ url = P0 ->
         << [src |-> DataUri], [href |-> F3, src |-> <<"a%20a", "/", "c.jpg">>] >>
    [] selector = "img" /\ url = P1 ->
         << [src |-> F2], [src |-> F1] >>
    [] selector = "img" /\ url = P2 ->
         << ("data-src" :> DataUri) >>
    [] OTHER -> << >>

\* $(selector).toArray().map(i => $(i).text()) on the document of `url`.
Texts(url, selector) ==
  CASE selector = "h3" /\ url = P0 -> << " t0 " >>
    [] selector = "h3" /\ url = P1 -> << "t/1" >>
    [] selector = "h3" /\ url = P2 -> << "t2" >>
    [] selector = "h1" /\ url = P0 -> << "d0" >>
    [] selector = "h1" /\ url = P1 -> << " d1" >>
    [] OTHER -> << >>

\* String.prototype.trim on the texts of the site.
Trim(s) ==
  CASE s = " t0 " -> "t0"
    [] s = " d1" -> "d1"
    [] OTHER -> s


\* The entries matched by an {entry, key, value} metadata selector:
\* $(entry).find(key).text() and $(entry).find(value).text() per entry.
EntryTexts(url, entrySelector) ==
  CASE entrySelector = "tr" /\ url = P2 ->
         << [key |-> " k ", value |-> "v1"], [key |-> "", value |-> " "],
            [key |-> "k", value |-> "v2"] >>
    [] OTHER -> << >>

TrimEntry(s) ==
  CASE s = " k " -> "k"
    [] s = " " -> ""
    [] OTHER -> s

(***************************************************************************)
(* URL handling.                                                           *)
(***************************************************************************)
Schemes == {"https://", "http://", "data:"}

RECURSIVE LastSlash(_)
\* index of the last "/" token of a URL, 0 when it has none
LastSlash(u) ==
  IF u = <<>> THEN 0
  ELSE IF u[Len(u)] = "/" THEN Len(u)
  ELSE LastSlash(SubSeq(u, 1, Len(u) - 1))

\* new URL(href, base).href for the references of the site: an absolute
\* reference stands, a reference that starts with "/" replaces the path of
\* the base, any other reference replaces the last segment of the base.
Resolve(href, base) ==
  IF href # <<>> /\ Head(href) \in Schemes THEN href
  ELSE IF href # <<>> /\ Head(href) = "/" THEN SubSeq(base, 1, 2) \o href
  ELSE SubSeq(base, 1, LastSlash(base)) \o href

\* decodeURI / encodeURI on the chunks of the site's URLs.
DecodeChunk(c) == IF c = "a%20a" THEN "a a" ELSE c
EncodeChunk(c) == IF c = "a a" THEN "a%20a" ELSE c
DecodeURI(u) == [i \in 1..Len(u) |-> DecodeChunk(u[i])]
EncodeURI(u) == [i \in 1..Len(u) |-> EncodeChunk(u[i])]

\* hrefs.map(href => new URL(href, base).href)
ResolveAll(hrefs, base) == [i \in 1..Len(hrefs) |-> Resolve(hrefs[i], base)]

\* fileUrl.replace(/^https?:\/\//, '')
StripScheme(u) ==
  IF u # <<>> /\ Head(u) \in {"https://", "http://"} THEN Tail(u) ELSE u

RECURSIVE StripQuery(_)
\* .replace(/\?.*$/, ''): everything from the first "?" on is dropped
StripQuery(u) ==
  IF u = <<>> THEN <<>>
  ELSE IF Head(u) = "?" THEN <<>>
  ELSE <<Head(u)>> \o StripQuery(Tail(u))

RECURSIVE SplitSlash(_, _)
\* String.prototype.split('/'): `cur` is the segment being read
SplitSlash(u, cur) ==
  IF u = <<>> THEN <<cur>>
  ELSE IF Head(u) = "/" THEN <<cur>> \o SplitSlash(Tail(u), "")
  ELSE SplitSlash(Tail(u), cur \o Head(u))

\* Array.prototype.slice(-n): the last n elements, all of them for n = 0
\* (slice(-0) is slice(0)) and for n >= length
SliceLastNoneForZero(seq, n) ==
  IF n >= Len(seq) THEN seq
  ELSE SubSeq(seq, Len(seq) - n + 1, Len(seq))

SliceLast(seq, n) ==
  IF n = 0 \/ n >= Len(seq) THEN seq
  ELSE SubSeq(seq, Len(seq) - n + 1, Len(seq))

RECURSIVE Join(_, _)
Join(seq, sep) ==
  IF seq = <<>> THEN ""
  ELSE IF Len(seq) = 1 THEN seq[1]
  ELSE seq[1] \o sep \o Join(Tail(seq), sep)

\* _getFilename: <<name>>, or <<>> when it throws 'failed to generate filename'
GetFilename(fileUrl, nameLevel) ==
  The({ IF filename = "" THEN <<>> ELSE <<filename>> :
        filename \in { Join(SliceLast(segments, nameLevel), "_") :
          segments \in { SplitSlash(domainAndPath, "") :
            domainAndPath \in { StripQuery(StripScheme(fileUrl)) } } } })

(***************************************************************************)
(* Options.                                                                *)
(***************************************************************************)
defaultOptions ==
  [saveDir |-> [root |-> "./download", subDirs |-> <<>>],
   file    |-> [nameLevel |-> 1, overwrite |-> FALSE, minSize |-> 0]]

\* deepmerge(defaultOptions, params.options, {arrayMerge: (dst, src) => src})
\* on the two levels of Options: objects are merged key by key, leaves and
\* arrays of the source replace those of the target.
DeepMergeOptions(dst, src) ==
  [k \in DOMAIN dst \cup DOMAIN src |->
     IF k \notin DOMAIN src THEN dst[k]
     ELSE IF k \notin DOMAIN dst THEN src[k]
     ELSE Assign(dst[k], src[k])]

RECURSIVE Dig(_, _)
\* dig(obj, keys) of getOption: obj is <<>> (null/undefined) or <<object>>
Dig(p, keys) ==
  IF keys = <<>> THEN p
  ELSE IF Len(p) = 0 THEN <<>>
  ELSE Dig(IF Head(keys) \in DOMAIN p[1] THEN <<p[1][Head(keys)]>> ELSE <<>>,
           Tail(keys))

\* a ?? b
Coalesce(a, b) == IF Len(a) # 0 THEN a ELSE b

\* getOption(path) with this.currentExtractor = cur (<<>> when undefined)
\* and this.options = opts
OptionOfFalsy(cur, opts, path) ==
  LET a == Dig(IF Len(cur) # 0 /\ Has(cur[1], "options")
                 THEN <<cur[1]["options"]>> ELSE <<>>, path)
      falsy == /\ Len(a) # 0
               /\ \/ path = <<"file", "overwrite">> /\ a[1] = FALSE
                  \/ path \in {<<"file", "nameLevel">>, <<"file", "minSize">>} /\ a[1] = 0
  IN  (IF Len(a) # 0 /\ ~falsy THEN a ELSE Dig(<<opts>>, path))[1]

OptionOf(cur, opts, path) ==
  Coalesce(Dig(IF Len(cur) # 0 /\ Has(cur[1], "options")
                 THEN <<cur[1]["options"]>> ELSE <<>>, path),
           Dig(<<opts>>, path))[1]

LeafPaths ==
  { <<"saveDir", "root">>, <<"saveDir", "subDirs">>, <<"file", "nameLevel">>,
    <<"file", "overwrite">>, <<"file", "minSize">> }

(***************************************************************************)
(* Extraction: _getMetadata, _getFileUrls, _getPageUrls.                   *)
(* An extractor is an object with any of the keys of Extractor; a hook     *)
(* (isMatched, fileUrlModifier, metadataModifier, additionalExtractor)     *)
(* is the table of the values it returns.                                  *)
(***************************************************************************)
RECURSIVE KvOf(_, _)
\* the loop of lines 166-172 over the entries; later keys overwrite
KvOf(entries, kv) ==
  IF entries = <<>> THEN kv
  ELSE LET key   == TrimEntry(Head(entries).key)
           value == TrimEntry(Head(entries).value)
       IN  KvOf(Tail(entries),
                IF key = "" /\ value = "" THEN kv ELSE Put(kv, key, value))

\* case 'string' of _getMetadata, lines 156-157, on the texts of the matched
\* elements; `kind` is the typeof of the value
StringValueNeverCollapsed(texts) ==
  [kind |-> "array", value |-> [i \in 1..Len(texts) |-> Trim(texts[i])]]

StringValue(texts) ==
  LET values == [i \in 1..Len(texts) |-> Trim(texts[i])]
  IN  IF Len(values) = 1 THEN [kind |-> "string", value |-> values[1]]
      ELSE [kind |-> "array", value |-> values]

\* the value one metadataSelectors entry yields, before the modifier
RawMetadataValue(url, selector) ==
  IF selector.type = "string"
  THEN StringValue(Texts(url, selector.selector)).value
  ELSE KvOf(EntryTexts(url, selector.entry), EmptyObject)

\* _getMetadata($, extractor, currentUrl)
GetMetadata(extractor, url) ==
  LET selectors == IF Has(extractor, "metadataSelectors")
                   THEN extractor["metadataSelectors"] ELSE EmptyObject
      modified(field) ==
        LET raw == RawMetadataValue(url, selectors[field])
        IN  IF Has(extractor, "metadataModifier")
            THEN extractor["metadataModifier"][<<field, raw>>] ELSE raw
      metadata == [field \in DOMAIN selectors |-> modified(field)]
      additional ==
        IF Has(extractor, "additionalExtractor")
           /\ Has(extractor["additionalExtractor"], "metadata")
        THEN extractor["additionalExtractor"]["metadata"][url] ELSE EmptyObject
  IN  Assign(metadata, additional)

\* [$(i).attr('href'), $(i).attr('src'), $(i).attr('data-src')] without the
\* attributes that are absent
FileAttrs(element) ==
  (IF Has(element, "href") THEN <<element["href"]>> ELSE <<>>)
  \o (IF Has(element, "src") THEN <<element["src"]>> ELSE <<>>)
  \o (IF Has(element, "data-src") THEN <<element["data-src"]>> ELSE <<>>)

RECURSIVE AllFileAttrs(_)
\* .map(i => [...]).flat().filter(i => i != null), lines 198-200
AllFileAttrs(elements) ==
  IF elements = <<>> THEN <<>>
  ELSE FileAttrs(Head(elements)) \o AllFileAttrs(Tail(elements))

RECURSIVE WithoutData(_)
\* .filter(i => ! i.startsWith('data:')), line 201
WithoutData(srcs) ==
  IF srcs = <<>> THEN <<>>
  ELSE (IF Head(srcs) # <<>> /\ Head(Head(srcs)) = "data:"
        THEN <<>> ELSE <<Head(srcs)>>)
       \o WithoutData(Tail(srcs))

RECURSIVE ModifyAll(_, _)
\* .flatMap(i => extractor.fileUrlModifier == null ? i : fileUrlModifier(i)), line 203
ModifyAll(extractor, urls) ==
  IF urls = <<>> THEN <<>>
  ELSE (IF Has(extractor, "fileUrlModifier")
        THEN extractor["fileUrlModifier"][Head(urls)] ELSE <<Head(urls)>>)
       \o ModifyAll(extractor, Tail(urls))

\* _getFileUrls($, extractor, currentUrl)
GetFileUrls(extractor, url) ==
  LET elements == IF Has(extractor, "fileSelector")
                  THEN Elements(url, extractor["fileSelector"]) ELSE <<>>
      urls == ModifyAll(extractor,
                        ResolveAll(WithoutData(AllFileAttrs(elements)), url))
      additional ==
        IF Has(extractor, "additionalExtractor")
           /\ Has(extractor["additionalExtractor"], "file")
        THEN ResolveAll(extractor["additionalExtractor"]["file"][url], url) ELSE <<>>
  IN  urls \o additional

RECURSIVE AllHrefs(_)
\* .map(i => $(i).attr('href')).filter(i => i != null), lines 219-220
AllHrefs(elements) ==
  IF elements = <<>> THEN <<>>
  ELSE (IF Has(Head(elements), "href") THEN <<Head(elements)["href"]>> ELSE <<>>)
       \o AllHrefs(Tail(elements))

\* _getPageUrls($, extractor, currentUrl)
GetPageUrls(extractor, url) ==
  LET elements == IF Has(extractor, "pageSelector")
                  THEN Elements(url, extractor["pageSelector"]) ELSE <<>>
      urls == ResolveAll(AllHrefs(elements), url)
      additional ==
        IF Has(extractor, "additionalExtractor")
           /\ Has(extractor["additionalExtractor"], "page")
        THEN ResolveAll(extractor["additionalExtractor"]["page"][url], url) ELSE <<>>
  IN  urls \o additional

\* .replace(/[/%*:|"<>]/g, '-') on the metadata values of the site
Sanitize(s) == IF s = "t/1" THEN "t-1" ELSE s

\* the directory of _getSaveDir as the list of its path segments: the root
\* and each subDirs template "{{key}}" filled in from the metadata.  <<>>
\* when a template names a key the metadata lacks (the template throws a
\* ReferenceError), else <<dir>>.
SaveDirOf(root, subDirs, metadata) ==
  IF \E i \in 1..Len(subDirs) : ~Has(metadata, subDirs[i]) THEN <<>>
  ELSE << <<root>> \o [i \in 1..Len(subDirs) |-> Sanitize(metadata[subDirs[i]])] >>


(***************************************************************************)
(* Constructor parameters the model is run with.                           *)
(***************************************************************************)
ExtGallery ==
  ("description" :> "gallery") @@ ("pageSelector" :> "a.page")
  @@ ("fileSelector" :> "img")
  @@ ("metadataSelectors" :> ("a" :> [type |-> "string", selector |-> "h3"]))

ExtDetail ==
  ("description" :> "detail")
  @@ ("isMatched" :> [u \in PageUrls |-> u \in {P0, P1}])
  @@ ("pageSelector" :> "a.next")
  @@ ("metadataSelectors" :> ("b" :> [type |-> "string", selector |-> "h1"]))
  @@ ("additionalExtractor" :>
        [file |-> [u \in PageUrls |-> IF u = P1 THEN <<F3>> ELSE <<>>],
         page |-> [u \in PageUrls |-> IF u = P1 THEN << <<"p0">> >> ELSE <<>>],
         metadata |-> [u \in PageUrls |->
                         IF u = P0 THEN ("url" :> <<"x">>) ELSE EmptyObject]])
  @@ ("options" :>
        [file |-> [overwrite |-> FALSE, minSize |-> 0],
         saveDir |-> [subDirs |-> <<"b">>]])

ExtLinks == ("pageSelector" :> "a.next")

ExtractorLists ==
  { <<ExtGallery, ExtDetail>>, <<ExtDetail>>, <<ExtLinks, ExtGallery>> }

UserOptions ==
  { EmptyObject,
    [file |-> [nameLevel |-> 2, overwrite |-> TRUE, minSize |-> 1],
     saveDir |-> [subDirs |-> <<"a">>]] }

SeedUrls == {P0, P1}

\* the seed lists: any list over SeedUrls that starts with P0
SeedLists ==
  { seeds \in UNION { [1..n -> SeedUrls] : n \in 0..MaxSeeds } :
      Len(seeds) > 0 => seeds[1] = P0 }

\* the byte lengths of the files the site serves: with file.minSize 0 or 1,
\* a length below, at and above the threshold
Sizes == {0, 1}

Runs == {1}

\* two invocations of run() on the same instance, constructed with the
\* default options, one URL seeded twice, and the extractor that has every
\* hook ahead of the one that matches every page
OverlappingRuns == {1, 2}

OverlapSeedLists == { << P0, P0 >> }

OverlapExtractorLists == { << ExtDetail, ExtGallery >> }

OverlapUserOptions == { EmptyObject }

\* what the file system holds when the downloader is constructed: nothing, or
\* a file that an earlier download has left
SavedBefore ==
  (<<"./download">> :> [kind |-> "dir", value |-> 0])
  @@ (<<"./download", "d1">> :> [kind |-> "dir", value |-> 0])
  @@ (<<"./download", "d1", "a a_c.jpg">> :> [kind |-> "file", value |-> 1])

InitialDisks == {<<>>, SavedBefore}

(***************************************************************************)
(* State.                                                                  *)
(***************************************************************************)
VARIABLES
  pages,             \* this.pages: the queue of [url, metadata]; metadata is
                     \* a heap reference, 0 when the entry has none
  processedPages,    \* this.processedPages, as the set of its keys
  extractors,        \* this.extractors
  options,           \* this.options
  dryrun,            \* this.dryrun
  currentExtractor,  \* this.currentExtractor: index into extractors, 0 = undefined
  heap,              \* the metadata objects, by reference
  disk,              \* the file system: path -> content
  startDisk,         \* history: the file system when the downloader was
                     \* constructed
  run,               \* per invocation of run(): its position and its locals
  active,            \* the invocation that holds the thread, 0 when all are
                     \* suspended at an await
  origin,            \* history: for each queue entry, where it came from, its
                     \* URL and its rank among the entries ever pushed
  count,             \* history: per page URL, how often it was enqueued, dequeued,
                     \* skipped, requested, handed to the extractors, abandoned,
                     \* how often its request was rejected, and the extractor
                     \* at which its page was abandoned (0: none) and the last
                     \* extractor that pushed its page URLs (0: none)
  discovered,        \* history: page URLs ever pushed by _processPage
  page,              \* history: per invocation, what the current page did
  faults,            \* history: failures injected by the environment so far
  ev                 \* history: what the last step did

vars == << pages, processedPages, extractors, options, dryrun, currentExtractor,
           heap, disk, startDisk, run, active, origin, count, discovered, page,
           faults, ev >>

config == << extractors, options, startDisk >>

IdleFrame ==
  [pc |-> "idle", dry |-> FALSE, url |-> <<>>, metadata |-> 0, ext |-> 0, found |-> FALSE,
   fileUrls |-> <<>>, file |-> 0, saveDir |-> <<>>, filepath |-> <<>>]

NoPage == [org |-> <<>>, base |-> EmptyObject, inherited |-> EmptyObject,
           extracted |-> EmptyObject, matched |-> <<>>, infoWrites |-> <<>>,
           requested |-> 0, settled |-> 0, pushed |-> 0, disk0 |-> <<>>]

SeedOrigin == [from |-> <<>>, inherited |-> EmptyObject, extracted |-> EmptyObject,
               snapshot |-> EmptyObject, ext |-> 0, seq |-> 0, url |-> <<>>]

\* the constructor, lines 83-93, on a file system that holds `files`, for an
\* instance on which the invocations `runs` of run() are going to be made
InitWith(seeds, exts, userOptions, files, runs) ==
    /\ pages = [i \in 1..Len(seeds) |-> [url |-> seeds[i], metadata |-> 0]]
    /\ processedPages = {}
    /\ extractors = exts
    /\ options = DeepMergeOptions(defaultOptions, userOptions)
    /\ dryrun = FALSE
    /\ currentExtractor = 0
    /\ heap = <<>>
    /\ disk = files
    /\ startDisk = files
    /\ run = [r \in runs |-> IdleFrame]
    /\ active = 0
    /\ origin = [i \in 1..Len(seeds) |->
                   [SeedOrigin EXCEPT !.seq = i, !.url = seeds[i]]]
    /\ count = [u \in PageUrls |->
                  [enqueued |-> Cardinality({i \in 1..Len(seeds) : seeds[i] = u}),
                   dequeued |-> 0, skipped |-> 0, fetched |-> 0, applied |-> 0,
                   failed |-> 0, rejected |-> 0, abandonedAt |-> 0,
                   pushedUpTo |-> 0]]
    /\ discovered = {}
    /\ page = [r \in runs |-> NoPage]
    /\ faults = 0
    /\ ev = [type |-> "new"]

Init ==
  \E seeds \in SeedLists, exts \in ExtractorLists, userOptions \in UserOptions,
     files \in InitialDisks :
    InitWith(seeds, exts, userOptions, files, Runs)

\* getOption(path) as invocation-independent lookup in the current state
GetOption(path) ==
  OptionOf(IF currentExtractor = 0 THEN <<>> ELSE <<extractors[currentExtractor]>>,
           options, path)

\* an invocation runs when it holds the thread, or takes the thread when no
\* invocation holds it
CanStep(r) == active = r \/ active = 0


(***************************************************************************)
(* run() and _processPage().                                               *)
(***************************************************************************)
Bump(u, field) == [count EXCEPT ![u][field] = @ + 1]

\* while (this.pages.length > 0), line 99
QueueNonEmptyOffByOne(queue) == Len(queue) > 1

QueueNonEmpty(queue) == Len(queue) > 0

\* if ( this.processedPages[url] ), line 114
IsProcessedNever(url) == FALSE

IsProcessed(url) == url \in processedPages

\* this.processedPages[url] = true, line 118
MarkProcessedForgets(url) == {url}

MarkProcessed(url) == processedPages \cup {url}

\* .catch(e => console.error(e)), line 100: what becomes of the invocation
\* when _processPage rejects
Uncaught(frame) == [frame EXCEPT !.pc = "rejected"]

Caught(frame) == [frame EXCEPT !.pc = "loop"]

\* a throw inside _processPage, at step `at`
PageThrows(r, at) ==
  /\ run' = [run EXCEPT ![r] = Caught(@)]
  /\ active' = 0
  /\ count' = [count EXCEPT ![run[r].url].failed = @ + 1,
                            ![run[r].url].rejected = IF at = "fetch" THEN @ + 1 ELSE @,
                            ![run[r].url].abandonedAt = IF at = "fetch" THEN @ ELSE run[r].ext]
  /\ ev' = [type |-> "throw", run |-> r, at |-> at, url |-> run[r].url,
            queue |-> pages, ext |-> run[r].ext, file |-> run[r].file, disk |-> disk]

\* if (options?.dryrun) { this.dryrun = options.dryrun }, line 97
DryrunFlagIgnored(dry) == dryrun

DryrunFlag(dry) == IF dry THEN TRUE ELSE dryrun

\* run(options), lines 96-97
Run(r, dry) ==
  /\ active = 0
  /\ run[r].pc = "idle"
  /\ dryrun' = DryrunFlag(dry)
  /\ run' = [run EXCEPT ![r].pc = "loop", ![r].dry = dry]
  /\ active' = r
  /\ ev' = [type |-> "run", run |-> r, dry |-> dry]
  /\ UNCHANGED << faults, pages, processedPages, config, currentExtractor, heap, disk,
                  origin, count, discovered, page >>

\* the loop of run() ends, lines 99-102
LoopExit(r) ==
  /\ CanStep(r)
  /\ run[r].pc = "loop"
  /\ ~QueueNonEmpty(pages)
  /\ run' = [run EXCEPT ![r].pc = "done"]
  /\ active' = 0
  /\ ev' = [type |-> "exit", run |-> r]
  /\ UNCHANGED << faults, pages, processedPages, config, dryrun, currentExtractor, heap,
                  disk, origin, count, discovered, page >>

\* this.pages.shift(), line 106: the entry taken and the queue left
Pop(queue) ==
  [entry |-> queue[Len(queue)], rest |-> SubSeq(queue, 1, Len(queue) - 1)]

Shift(queue) == [entry |-> Head(queue), rest |-> Tail(queue)]

\* _processPage up to its first await, lines 105-120
ProcessPage(r) ==
  /\ CanStep(r)
  /\ run[r].pc = "loop"
  /\ QueueNonEmpty(pages)
  /\ LET urlEntry == Shift(pages).entry
         url   == urlEntry.url
         fresh == urlEntry.metadata = 0
         ref   == IF fresh THEN Len(heap) + 1 ELSE urlEntry.metadata
         heap1 == IF fresh THEN Append(heap, EmptyObject) ELSE heap
         heap2 == [heap1 EXCEPT ![ref] = Put(@, "url", url)]
     IN  /\ pages' = Shift(pages).rest
         /\ origin' = Tail(origin)
         /\ heap' = heap2
         /\ page' = [page EXCEPT ![r] =
                       [NoPage EXCEPT !.org = <<Head(origin)>>, !.base = heap2[ref],
                                      !.disk0 = disk]]
         /\ IF IsProcessed(url)
            THEN /\ run' = [run EXCEPT ![r].url = url, ![r].metadata = ref]
                 /\ count' = [count EXCEPT ![url].dequeued = @ + 1, ![url].skipped = @ + 1]
                 /\ ev' = [type |-> "skip", run |-> r, url |-> url]
                 /\ UNCHANGED processedPages
            ELSE /\ processedPages' = MarkProcessed(url)
                 /\ run' = [run EXCEPT ![r].url = url, ![r].metadata = ref,
                                       ![r].pc = "fetchPage"]
                 /\ count' = [count EXCEPT ![url].dequeued = @ + 1, ![url].fetched = @ + 1]
                 /\ ev' = [type |-> "pageReq", run |-> r, url |-> url]
  /\ active' = 0
  /\ UNCHANGED << faults, config, dryrun, currentExtractor, disk, discovered >>

\* await this.axios.get(url) resolves, cheerio.load, lines 120-122
PageFetched(r) ==
  /\ active = 0
  /\ run[r].pc = "fetchPage"
  /\ run' = [run EXCEPT ![r].pc = "extractors", ![r].ext = 1, ![r].found = FALSE]
  /\ count' = Bump(run[r].url, "applied")
  /\ active' = r
  /\ ev' = [type |-> "pageOk", run |-> r, url |-> run[r].url]
  /\ UNCHANGED << faults, pages, processedPages, config, dryrun, currentExtractor, heap,
                  disk, origin, discovered, page >>

\* await this.axios.get(url) rejects, line 120
PageFetchFails(r) ==
  /\ faults < MaxFaults
  /\ faults' = faults + 1
  /\ active = 0
  /\ run[r].pc = "fetchPage"
  /\ PageThrows(r, "fetch")
  /\ UNCHANGED << pages, processedPages, config, dryrun, currentExtractor, heap,
                  disk, origin, discovered, page >>

\* for (const extractor of this.extractors) has no extractor left, line 123
ExtractorsDone(frame) == frame.ext > Len(extractors)

\* the for loop over the extractors is over, lines 123, 144-147
PageEnd(r) ==
  /\ active = r
  /\ run[r].pc = "extractors"
  /\ ExtractorsDone(run[r])
  /\ run' = [run EXCEPT ![r].pc = "loop"]
  /\ active' = 0
  /\ ev' = [type |-> "pageEnd", run |-> r, url |-> run[r].url, found |-> run[r].found]
  /\ UNCHANGED << faults, pages, processedPages, config, dryrun, currentExtractor, heap,
                  disk, origin, count, discovered, page >>

\* extractor.isMatched != null && !extractor.isMatched(url, $), line 126
NotMatchedWhenUnset(extractor, url) ==
  ~Has(extractor, "isMatched") \/ ~extractor["isMatched"][url]

NotMatched(extractor, url) ==
  Has(extractor, "isMatched") /\ ~extractor["isMatched"][url]

\* an extractor that does not match: continue, lines 124-126
ExtractorSkipped(r) ==
  /\ active = r
  /\ run[r].pc = "extractors"
  /\ ~ExtractorsDone(run[r])
  /\ NotMatched(extractors[run[r].ext], run[r].url)
  /\ currentExtractor' = run[r].ext
  /\ run' = [run EXCEPT ![r].ext = @ + 1]
  /\ active' = r
  /\ ev' = [type |-> "noMatch", run |-> r, url |-> run[r].url, ext |-> run[r].ext]
  /\ UNCHANGED << faults, pages, processedPages, config, dryrun, heap, disk, origin,
                  count, discovered, page >>

\* metadata = Object.assign({}, metadata, this._getMetadata(...)), line 133
MergeMetadataDropsInherited(metadata, extracted) ==
  Assign(EmptyObject, extracted)

MergeMetadata(metadata, extracted) ==
  Assign(Assign(EmptyObject, metadata), extracted)

\* an extractor that matches, up to the call of _saveFiles, lines 124-137
ExtractorMatched(r) ==
  /\ active = r
  /\ run[r].pc = "extractors"
  /\ ~ExtractorsDone(run[r])
  /\ ~NotMatched(extractors[run[r].ext], run[r].url)
  /\ LET extractor == extractors[run[r].ext]
         extracted == GetMetadata(extractor, run[r].url)
     IN  /\ heap' = Append(heap, MergeMetadata(heap[run[r].metadata], extracted))
         /\ page' = [page EXCEPT ![r].inherited = heap[run[r].metadata],
                                 ![r].extracted = extracted,
                                 ![r].matched = Append(@, run[r].ext)]
         /\ run' = [run EXCEPT ![r].found = TRUE,
                               ![r].metadata = Len(heap) + 1,
                               ![r].fileUrls = GetFileUrls(extractor, run[r].url),
                               ![r].file = 0,
                               ![r].pc = "saveDir"]
  /\ currentExtractor' = run[r].ext
  /\ active' = r
  /\ ev' = [type |-> "match", run |-> r, url |-> run[r].url, ext |-> run[r].ext]
  /\ UNCHANGED << faults, pages, processedPages, config, dryrun, disk, origin, count,
                  discovered >>

\* the hooks an extractor calls while it is matched and applied
HasMatchHook(extractor) == Has(extractor, "isMatched")

HasExtractHook(extractor) ==
  \/ Has(extractor, "metadataModifier")
  \/ Has(extractor, "fileUrlModifier")
  \/ /\ Has(extractor, "additionalExtractor")
     /\ \/ Has(extractor["additionalExtractor"], "metadata")
        \/ Has(extractor["additionalExtractor"], "file")

HasPageHook(extractor) ==
  /\ Has(extractor, "additionalExtractor")
  /\ Has(extractor["additionalExtractor"], "page")

\* isMatched throws, line 126
IsMatchedThrows(r) ==
  /\ faults < MaxFaults
  /\ faults' = faults + 1
  /\ active = r
  /\ run[r].pc = "extractors"
  /\ ~ExtractorsDone(run[r])
  /\ HasMatchHook(extractors[run[r].ext])
  /\ currentExtractor' = run[r].ext
  /\ PageThrows(r, "isMatched")
  /\ UNCHANGED << pages, processedPages, config, dryrun, heap, disk, origin,
                  discovered, page >>

\* a hook of _getMetadata or _getFileUrls throws, lines 133-135
ExtractionThrows(r) ==
  /\ faults < MaxFaults
  /\ faults' = faults + 1
  /\ active = r
  /\ run[r].pc = "extractors"
  /\ ~ExtractorsDone(run[r])
  /\ ~NotMatched(extractors[run[r].ext], run[r].url)
  /\ HasExtractHook(extractors[run[r].ext])
  /\ currentExtractor' = run[r].ext
  /\ PageThrows(r, "extract")
  /\ UNCHANGED << pages, processedPages, config, dryrun, heap, disk, origin,
                  discovered, page >>


(***************************************************************************)
(* _saveFiles().                                                           *)
(***************************************************************************)
\* fs.mkdirSync(saveDir, {recursive: true}): the directory and its parents
Mkdirs(fs, dir) ==
  [q \in DOMAIN fs \cup {SubSeq(dir, 1, n) : n \in 1..Len(dir)} |->
     IF q \in DOMAIN fs THEN fs[q] ELSE [kind |-> "dir", value |-> 0]]

\* fs.writeFileSync(path, content)
WriteFile(fs, path, content) ==
  [q \in DOMAIN fs \cup {path} |-> IF q = path THEN content ELSE fs[q]]

\* JSON.stringify(metadata), line 263
InfoJson(metadata) == [kind |-> "json", value |-> metadata]

\* _getSaveDir(metadata) for the current extractor, lines 234-243
GetSaveDir(metadata) ==
  SaveDirOf(GetOption(<<"saveDir", "root">>), GetOption(<<"saveDir", "subDirs">>),
            metadata)

\* _saveFiles up to its loop: the directory and info.json, lines 260-263
SaveFilesBegin(r) ==
  /\ active = r
  /\ run[r].pc = "saveDir"
  /\ Len(GetSaveDir(heap[run[r].metadata])) # 0
  /\ LET saveDir == GetSaveDir(heap[run[r].metadata])[1]
         content == InfoJson(heap[run[r].metadata])
     IN  /\ disk' = WriteFile(Mkdirs(disk, saveDir), Append(saveDir, "info.json"), content)
         /\ run' = [run EXCEPT ![r].saveDir = saveDir, ![r].file = 1,
                               ![r].pc = "saveFiles"]
         /\ page' = [page EXCEPT ![r].infoWrites =
                       Append(@, [dir |-> saveDir, content |-> content,
                                  ext |-> run[r].ext])]
         /\ ev' = [type |-> "info", run |-> r, url |-> run[r].url,
                   ext |-> run[r].ext, dir |-> saveDir]
  /\ active' = r
  /\ UNCHANGED << faults, pages, processedPages, config, dryrun, currentExtractor, heap,
                  origin, count, discovered >>

\* what fs.writeFileSync leaves when it has opened the file (flag 'w') and
\* the write fails: a resource file of 0 bytes, an info.json without text,
\* or, after a short write, the first bytes of the file: a resource file of
\* fewer bytes, an info.json with a part of the text of the metadata
EmptyFile == [kind |-> "file", value |-> 0]

EmptyInfo == [kind |-> "empty", value |-> EmptyObject]

PartialFile(written) == [kind |-> "file", value |-> written]

PartialInfo(metadata) == [kind |-> "partial", value |-> metadata]

\* what a failing fs.writeFileSync has done when it throws: nothing, the file
\* created or emptied, or a part of the data written
WriteFailures == {"refused", "truncated", "partial"}

\* where _saveFiles fails before its loop: in _getSaveDir (the template of
\* line 238 or the mkdirSync of line 240), or in the write of info.json of
\* line 263, when the directory has been made
SaveDirFailures == {"getSaveDir"} \cup WriteFailures

\* what a failing step of lines 238-263 leaves on disk. _getSaveDir: the
\* template throws with nothing done, fs.mkdirSync(saveDir, {recursive:
\* true}) throws with the directories above the one it fails at made; the
\* write of info.json: every directory made, and the file as the failing
\* write left it
SaveDirLeftovers(fs, saveDir, metadata, failure) ==
  CASE failure = "getSaveDir" ->
         { Mkdirs(fs, SubSeq(saveDir, 1, made)) : made \in 0..(Len(saveDir) - 1) }
    [] failure = "refused" -> { Mkdirs(fs, saveDir) }
    [] failure = "truncated" ->
         { WriteFile(Mkdirs(fs, saveDir), Append(saveDir, "info.json"), EmptyInfo) }
    [] failure = "partial" ->
         { WriteFile(Mkdirs(fs, saveDir), Append(saveDir, "info.json"),
                     PartialInfo(metadata)) }

\* _getSaveDir or the write of info.json throws: a template names a key the
\* metadata lacks, or the file system refuses, lines 238-240, 263
SaveDirThrows(r, failure) ==
  /\ active = r
  /\ run[r].pc = "saveDir"
  /\ IF Len(GetSaveDir(heap[run[r].metadata])) = 0
     THEN /\ failure = "getSaveDir"
          /\ UNCHANGED << faults, disk >>
     ELSE /\ faults < MaxFaults
          /\ faults' = faults + 1
          /\ \E saveDir \in Range(GetSaveDir(heap[run[r].metadata])) :
               disk' \in SaveDirLeftovers(disk, saveDir, heap[run[r].metadata], failure)
  /\ PageThrows(r, "saveDir")
  /\ UNCHANGED << pages, processedPages, config, dryrun, currentExtractor, heap,
                  origin, discovered, page >>

\* the file the loop of _saveFiles is at, lines 266-268
CurrentFileUrl(r) == DecodeURI(run[r].fileUrls[run[r].file])

CurrentFilename(r) ==
  The({ GetFilename(fileUrl, GetOption(<<"file", "nameLevel">>)) :
        fileUrl \in {CurrentFileUrl(r)} })

\* for (const _fileUrl of fileUrls) has no file left, line 265
FilesDoneEarly(frame) == frame.file >= 1

FilesDone(frame) == frame.file > Len(frame.fileUrls)

AtFile(r) ==
  /\ active = r
  /\ run[r].pc = "saveFiles"
  /\ run[r].file <= Len(run[r].fileUrls)

\* this.getOption(['file', 'overwrite']) !== true && fs.existsSync(filepath), line 270
AlreadyDownloadedIgnoresOverwrite(filepath) == filepath \in DOMAIN disk

AlreadyDownloaded(filepath) ==
  GetOption(<<"file", "overwrite">>) # TRUE /\ filepath \in DOMAIN disk

\* _getFilename throws, line 267: the throw leaves _saveFiles
FilenameThrows(r) ==
  /\ AtFile(r)
  /\ Len(CurrentFilename(r)) = 0
  /\ PageThrows(r, "filename")
  /\ UNCHANGED << faults, pages, processedPages, config, dryrun, currentExtractor, heap,
                  disk, origin, discovered, page >>

\* the file exists and is not overwritten: continue, lines 270-273
FileExists(r) ==
  /\ AtFile(r)
  /\ Len(CurrentFilename(r)) # 0
  /\ AlreadyDownloaded(Append(run[r].saveDir, CurrentFilename(r)[1]))
  /\ run' = [run EXCEPT ![r].file = @ + 1]
  /\ active' = r
  /\ ev' = [type |-> "fileExists", run |-> r, file |-> run[r].file,
            ext |-> run[r].ext, before |-> disk,
            path |-> Append(run[r].saveDir, CurrentFilename(r)[1])]
  /\ UNCHANGED << faults, pages, processedPages, config, dryrun, currentExtractor, heap,
                  disk, origin, count, discovered, page >>

\* dry run: continue, lines 275-278
FileDryrun(r) ==
  /\ AtFile(r)
  /\ Len(CurrentFilename(r)) # 0
  /\ ~AlreadyDownloaded(Append(run[r].saveDir, CurrentFilename(r)[1]))
  /\ dryrun
  /\ run' = [run EXCEPT ![r].file = @ + 1]
  /\ active' = r
  /\ ev' = [type |-> "fileDryrun", run |-> r, file |-> run[r].file,
            ext |-> run[r].ext, before |-> disk,
            path |-> Append(run[r].saveDir, CurrentFilename(r)[1])]
  /\ UNCHANGED << faults, pages, processedPages, config, dryrun, currentExtractor, heap,
                  disk, origin, count, discovered, page >>

\* this.axios.get(encodeURI(fileUrl), ...) is called, line 281
FileRequested(r) ==
  /\ AtFile(r)
  /\ Len(CurrentFilename(r)) # 0
  /\ ~AlreadyDownloaded(Append(run[r].saveDir, CurrentFilename(r)[1]))
  /\ ~dryrun
  /\ run' = [run EXCEPT ![r].filepath = Append(run[r].saveDir, CurrentFilename(r)[1]),
                        ![r].pc = "fetchFile"]
  /\ page' = [page EXCEPT ![r].requested = @ + 1]
  /\ active' = 0
  /\ ev' = [type |-> "fileReq", run |-> r, file |-> run[r].file,
            ext |-> run[r].ext, before |-> disk,
            path |-> Append(run[r].saveDir, CurrentFilename(r)[1]),
            request |-> EncodeURI(CurrentFileUrl(r))]
  /\ UNCHANGED << faults, pages, processedPages, config, dryrun, currentExtractor, heap,
                  disk, origin, count, discovered >>

\* fileData.byteLength < minFileSize, line 283
UndersizedOrEqual(size) == size <= GetOption(<<"file", "minSize">>)

Undersized(size) == size < GetOption(<<"file", "minSize">>)

\* the fetch resolves with `size` bytes, lines 281-288
FileFetched(r, size) ==
  /\ active = 0
  /\ run[r].pc = "fetchFile"
  /\ disk' = IF Undersized(size) THEN disk
             ELSE WriteFile(disk, run[r].filepath, [kind |-> "file", value |-> size])
  /\ run' = [run EXCEPT ![r].file = @ + 1, ![r].pc = "saveFiles"]
  /\ page' = [page EXCEPT ![r].settled = @ + 1]
  /\ active' = r
  /\ ev' = [type |-> "fileOk", run |-> r, file |-> run[r].file, size |-> size,
            path |-> run[r].filepath, ext |-> run[r].ext,
            prior |-> IF run[r].filepath \in DOMAIN disk
                      THEN <<disk[run[r].filepath]>> ELSE <<>>]
  /\ UNCHANGED << faults, pages, processedPages, config, dryrun, currentExtractor, heap,
                  origin, count, discovered >>

\* catch(e) of the file's try block, lines 290-293
FileCatchRethrows(frame) == [frame EXCEPT !.pc = "loop"]

FileCatch(frame) == [frame EXCEPT !.file = @ + 1, !.pc = "saveFiles"]

\* where the try block of a file fails: the request of line 281 rejects,
\* or the response is long enough and the write of line 287 throws
FileFailures == {"request"} \cup WriteFailures

\* what a failing try block of a file leaves at the file's path: nothing
\* new when the request rejects or the write is refused; when the write of a
\* response long enough to be written fails later, an empty file or the
\* first bytes of the response (of a response of one byte, a short write
\* leaves none: the empty file)
FileLeftovers(failure) ==
  CASE failure = "request" -> { <<>> }
    [] failure = "refused" -> { <<>> : size \in { n \in Sizes : ~Undersized(n) } }
    [] failure = "truncated" ->
         { <<EmptyFile>> : size \in { n \in Sizes : ~Undersized(n) } }
    [] failure = "partial" ->
         UNION { { <<PartialFile(written)>> : written \in 1..(size - 1) } :
                 size \in { n \in Sizes : ~Undersized(n) } }

\* the fetch or the write of the file throws, lines 281, 287
FileFails(r, failure) ==
  /\ faults < MaxFaults
  /\ faults' = faults + 1
  /\ active = 0
  /\ run[r].pc = "fetchFile"
  /\ \E left \in FileLeftovers(failure) :
       /\ disk' = IF left = <<>> THEN disk ELSE WriteFile(disk, run[r].filepath, left[1])
       /\ ev' = [type |-> "fileErr", run |-> r, file |-> run[r].file,
                 ext |-> run[r].ext, url |-> run[r].url, path |-> run[r].filepath,
                 left |-> left,
                 prior |-> IF run[r].filepath \in DOMAIN disk
                           THEN <<disk[run[r].filepath]>> ELSE <<>>]
  /\ run' = [run EXCEPT ![r] = FileCatch(@)]
  /\ page' = [page EXCEPT ![r].settled = @ + 1]
  /\ active' = r
  /\ UNCHANGED << pages, processedPages, config, dryrun, currentExtractor, heap,
                  origin, count, discovered >>

\* the loop of _saveFiles is over; _processPage resumes after its await, line 137
SaveFilesEnd(r) ==
  /\ active = r
  /\ run[r].pc = "saveFiles"
  /\ FilesDone(run[r])
  /\ run' = [run EXCEPT ![r].pc = "pageUrls"]
  /\ active' = 0
  /\ ev' = [type |-> "filesEnd", run |-> r, ext |-> run[r].ext]
  /\ UNCHANGED << faults, pages, processedPages, config, dryrun, currentExtractor, heap,
                  disk, origin, count, discovered, page >>

\* this.pages.push(...pageUrls.map(url => ({url, metadata}))), lines 139-141
NewEntries(pageUrls, metadata) ==
  [i \in 1..Len(pageUrls) |-> [url |-> pageUrls[i], metadata |-> metadata]]

\* the page URLs of the extractor are pushed, lines 139-142
EnqueuePages(r) ==
  /\ CanStep(r)
  /\ run[r].pc = "pageUrls"
  /\ LET pageUrls == GetPageUrls(extractors[run[r].ext], run[r].url)
     IN  /\ pages' = pages \o NewEntries(pageUrls, run[r].metadata)
         /\ origin' = origin \o
              [i \in 1..Len(pageUrls) |->
                 [from |-> run[r].url, inherited |-> page[r].inherited,
                  extracted |-> page[r].extracted,
                  snapshot |-> heap[run[r].metadata], ext |-> run[r].ext,
                  seq |-> Len(origin) + i
                          + count[P0].dequeued + count[P1].dequeued + count[P2].dequeued,
                  url |-> pageUrls[i]]]
         /\ discovered' = discovered \cup Range(pageUrls)
         /\ count' = [u \in PageUrls |->
                        [count[u] EXCEPT !.enqueued =
                           @ + Cardinality({i \in 1..Len(pageUrls) : pageUrls[i] = u}),
                         !.pushedUpTo = IF u = run[r].url THEN run[r].ext ELSE @]]
         /\ ev' = [type |-> "enqueue", run |-> r, url |-> run[r].url,
                   ext |-> run[r].ext, n |-> Len(pageUrls),
                   handled |-> run[r].file - 1, batch |-> Len(run[r].fileUrls)]
         /\ page' = [page EXCEPT ![r].pushed = @ + Len(pageUrls)]
  /\ run' = [run EXCEPT ![r].ext = @ + 1, ![r].pc = "extractors"]
  /\ active' = r
  /\ UNCHANGED << faults, processedPages, config, dryrun, currentExtractor, heap, disk >>

\* additionalExtractor.page throws, line 139
PageUrlsThrow(r) ==
  /\ faults < MaxFaults
  /\ faults' = faults + 1
  /\ CanStep(r)
  /\ run[r].pc = "pageUrls"
  /\ HasPageHook(extractors[run[r].ext])
  /\ PageThrows(r, "pageUrls")
  /\ UNCHANGED << pages, processedPages, config, dryrun, currentExtractor, heap,
                  disk, origin, discovered, page >>

(***************************************************************************)
(* Specifications.                                                         *)
(***************************************************************************)
Next ==
  \/ \E r \in DOMAIN run, dry \in BOOLEAN : Run(r, dry)
  \/ \E r \in DOMAIN run : LoopExit(r)
  \/ \E r \in DOMAIN run : ProcessPage(r)
  \/ \E r \in DOMAIN run : PageFetched(r)
  \/ \E r \in DOMAIN run : PageFetchFails(r)
  \/ \E r \in DOMAIN run : PageEnd(r)
  \/ \E r \in DOMAIN run : ExtractorSkipped(r)
  \/ \E r \in DOMAIN run : ExtractorMatched(r)
  \/ \E r \in DOMAIN run : IsMatchedThrows(r)
  \/ \E r \in DOMAIN run : ExtractionThrows(r)
  \/ \E r \in DOMAIN run : SaveFilesBegin(r)
  \/ \E r \in DOMAIN run, failure \in SaveDirFailures : SaveDirThrows(r, failure)
  \/ \E r \in DOMAIN run : FilenameThrows(r)
  \/ \E r \in DOMAIN run : FileExists(r)
  \/ \E r \in DOMAIN run : FileDryrun(r)
  \/ \E r \in DOMAIN run : FileRequested(r)
  \/ \E r \in DOMAIN run, size \in Sizes : FileFetched(r, size)
  \/ \E r \in DOMAIN run, failure \in FileFailures : FileFails(r, failure)
  \/ \E r \in DOMAIN run : SaveFilesEnd(r)
  \/ \E r \in DOMAIN run : EnqueuePages(r)
  \/ \E r \in DOMAIN run : PageUrlsThrow(r)

Spec == Init /\ [][Next]_vars


\* the instances whose seed list is no longer than the number of distinct
\* seed URLs: a longer list only adds entries that are skipped
LiveSeedLists == { seeds \in SeedLists : Len(seeds) <= Cardinality(SeedUrls) }

LiveInit ==
  \E seeds \in LiveSeedLists, exts \in ExtractorLists, userOptions \in UserOptions,
     files \in InitialDisks :
    InitWith(seeds, exts, userOptions, files, Runs)

\* the event loop runs every continuation that is ready, and every request
\* of the fetcher settles: the code sets no timeout (lines 89-92), so this is
\* an assumption about the network
LiveSpec == LiveInit /\ [][Next]_vars /\ WF_vars(Next)

\* run() is called twice on the same instance; the second call is made
\* whenever no invocation holds the thread
OverlapInit ==
  \E seeds \in OverlapSeedLists, exts \in OverlapExtractorLists,
     userOptions \in OverlapUserOptions :
    InitWith(seeds, exts, userOptions, <<>>, OverlappingRuns)

OverlapSpec == OverlapInit /\ [][Next]_vars

(***************************************************************************)
(* _getFilename and the string case of _getMetadata on their own: a call   *)
(* with inputs drawn from bounded sets, then its return.                   *)
(***************************************************************************)
SegmentTexts == {"", "ex.com", "a", "b", "c.jpg"}

SegmentLists == UNION { [1..k -> SegmentTexts] : k \in 1..MaxSegments }

SchemeParts == { <<>>, <<"https://">>, <<"http://">> }

QueryParts == { <<>>, <<"?", "x=1">>, <<"?", "x", "/", "y">> }

RECURSIVE PathOf(_)
\* the tokens of segments written with '/' between them
PathOf(segments) ==
  IF Len(segments) = 1
  THEN (IF segments[1] = "" THEN <<>> ELSE <<segments[1]>>)
  ELSE (IF segments[1] = "" THEN <<>> ELSE <<segments[1]>>)
       \o <<"/">> \o PathOf(Tail(segments))

\* the file URLs handed to _getFilename, with the parts they are made of
FileUrlInputs ==
  { [scheme |-> scheme, segments |-> segments, query |-> query,
     fileUrl |-> scheme \o PathOf(segments) \o query] :
    scheme \in SchemeParts, segments \in SegmentLists, query \in QueryParts }

MatchedTexts == { " t0 ", "t2" }

TextLists == UNION { [1..n -> MatchedTexts] : n \in 0..MaxTexts }

FnInit ==
  /\ \/ \E input \in FileUrlInputs, nameLevel \in 0..MaxLevel :
          /\ options = DeepMergeOptions(defaultOptions,
                                         [file |-> [nameLevel |-> nameLevel]])
          /\ ev = [type |-> "call", fn |-> "_getFilename", input |-> input]
     \/ \E texts \in TextLists :
          /\ options = defaultOptions
          /\ ev = [type |-> "call", fn |-> "_getMetadata", texts |-> texts]
  /\ pages = <<>>
  /\ processedPages = {}
  /\ extractors = <<>>
  /\ dryrun = FALSE
  /\ currentExtractor = 0
  /\ heap = <<>>
  /\ disk = <<>>
  /\ startDisk = <<>>
  /\ run = [r \in Runs |-> IdleFrame]
  /\ active = 0
  /\ origin = <<>>
  /\ count = [u \in PageUrls |->
                [enqueued |-> 0, dequeued |-> 0, skipped |-> 0, fetched |-> 0,
                 applied |-> 0, failed |-> 0, rejected |-> 0]]
  /\ discovered = {}
  /\ page = [r \in Runs |-> NoPage]
  /\ faults = 0

\* this._getFilename(fileUrl), lines 246-256
GetFilenameCall ==
  /\ ev.type = "call"
  /\ ev.fn = "_getFilename"
  /\ ev' = [type |-> "return", fn |-> "_getFilename", input |-> ev.input,
            result |-> GetFilename(ev.input.fileUrl, GetOption(<<"file", "nameLevel">>))]
  /\ UNCHANGED << pages, processedPages, config, dryrun, currentExtractor, heap,
                  disk, run, active, origin, count, discovered, page, faults >>

\* case 'string' of _getMetadata without a modifier, lines 155-163
StringSelectorCall ==
  /\ ev.type = "call"
  /\ ev.fn = "_getMetadata"
  /\ ev' = [type |-> "return", fn |-> "_getMetadata", texts |-> ev.texts,
            result |-> StringValue(ev.texts)]
  /\ UNCHANGED << pages, processedPages, config, dryrun, currentExtractor, heap,
                  disk, run, active, origin, count, discovered, page, faults >>

FnNext ==
  \/ GetFilenameCall
  \/ StringSelectorCall

FnSpec == FnInit /\ [][FnNext]_vars

(***************************************************************************)
(* Properties.                                                             *)
(***************************************************************************)
\* field-wise overwrite, b's fields winning
Overlay(a, b) ==
  [k \in DOMAIN a \cup DOMAIN b |-> IF k \in DOMAIN b THEN b[k] ELSE a[k]]

\* the value getOption is to return while extractor `e` is applied
ExpectedOption(e, path) ==
  IF /\ Has(e, "options")
     /\ Has(e["options"], path[1])
     /\ Has(e["options"][path[1]], path[2])
  THEN e["options"][path[1]][path[2]]
  ELSE options[path[1]][path[2]]

Saving(r) == run[r].pc \in {"saveDir", "saveFiles", "fetchFile"}

\* C1: a page URL is requested at most once and handed to the extractors at
\* most once, however often it is enqueued; every dequeue of it but the one
\* that requested it was skipped, and a dequeued URL is in the visited set.
C1_IdempotentVisitation ==
  \A u \in PageUrls :
    /\ count[u].fetched <= 1
    /\ count[u].applied <= 1
    /\ count[u].dequeued = count[u].fetched + count[u].skipped
    /\ (count[u].dequeued >= 1 => u \in processedPages)

C1_Witness ==
  \E u \in PageUrls :
    /\ count[u].enqueued >= 3
    /\ count[u].dequeued = count[u].enqueued
    /\ count[u].fetched = 1
    /\ count[u].applied = 1
    /\ count[u].skipped >= 2

\* C2: a throw inside _processPage never rejects run(): the invocation is back
\* at its loop with the queue as it was at the throw, and when run() returns
\* the queue is empty and every entry ever enqueued was dequeued.
C2_PageErrorIsolation ==
  \A r \in DOMAIN run :
    /\ run[r].pc # "rejected"
    /\ (ev.type = "throw" /\ ev.run = r) =>
         (run[r].pc = "loop" /\ pages = ev.queue)
    /\ run[r].pc = "done" =>
         /\ pages = <<>>
         /\ \A u \in PageUrls : count[u].dequeued = count[u].enqueued

C2_Witness ==
  /\ run[1].pc = "done"
  /\ \E u, v \in PageUrls :
       /\ u # v
       /\ count[u].failed = 1
       /\ count[v].dequeued >= 1
       /\ count[v].applied = 1
       /\ count[v].failed = 0

\* C3: when the filename of a file is empty, only that file is skipped:
\* _saveFiles goes on with the next file of the batch, for the same extractor.
C3_FilenameFailureIsFileLevel ==
  \A r \in DOMAIN run :
    (ev.type = "throw" /\ ev.at = "filename" /\ ev.run = r) =>
      /\ run[r].pc = "saveFiles"
      /\ run[r].file = ev.file + 1
      /\ run[r].ext = ev.ext

\* C4: the metadata of an entry of the queue is what it was when the entry
\* was pushed, until the entry itself is dequeued: no other entry's dequeue
\* changes it, and its url field stays the URL of the page that produced it.
C4_QueuedMetadataUnshared ==
  \A i \in 1..Len(pages) :
    pages[i].metadata # 0 => heap[pages[i].metadata] = origin[i].snapshot

\* C5: an entry discovered by an extractor on page P is processed with P's
\* metadata of that moment, overwritten field by field by what the extractor
\* extracted, and with url set to the entry's own URL; no field is lost.
C5_MetadataAccumulation ==
  \A r \in DOMAIN run :
    run[r].pc = "fetchPage" =>
      LET org == page[r].org[1]
          had == heap[run[r].metadata]
      IN  /\ DOMAIN had = DOMAIN org.inherited \cup DOMAIN org.extracted \cup {"url"}
          /\ had["url"] = run[r].url
          /\ \A k \in DOMAIN had \ {"url"} :
               had[k] = IF k \in DOMAIN org.extracted
                        THEN org.extracted[k] ELSE org.inherited[k]

C5_Witness ==
  \E r \in DOMAIN run :
    /\ run[r].pc = "fetchPage"
    /\ page[r].org[1].from # <<>>
    /\ \E k \in DOMAIN page[r].org[1].inherited \ {"url"} :
         /\ k \in DOMAIN page[r].org[1].extracted
         /\ page[r].org[1].extracted[k] # page[r].org[1].inherited[k]
    /\ \E k \in DOMAIN page[r].org[1].inherited \ {"url"} :
         k \notin DOMAIN page[r].org[1].extracted

\* C6: while files are saved for extractor E, every option resolves to E's
\* override when E defines one (a defined false or 0 included) and to the
\* global option otherwise, and E is the current extractor.
C6_OptionPrecedence ==
  \A r \in DOMAIN run :
    Saving(r) =>
      /\ currentExtractor = run[r].ext
      /\ \A path \in LeafPaths :
           GetOption(path) = ExpectedOption(extractors[run[r].ext], path)

C6_Witness ==
  \E r \in DOMAIN run :
    /\ run[r].pc = "fetchFile"
    /\ GetOption(<<"file", "overwrite">>) = FALSE
    /\ options["file"]["overwrite"] = TRUE
    /\ GetOption(<<"file", "minSize">>) = 0
    /\ options["file"]["minSize"] = 1
    /\ GetOption(<<"file", "nameLevel">>) = options["file"]["nameLevel"]
    /\ Len(page[r].matched) = 2

\* C7: run() returns, and when it has returned the queue is empty and the
\* visited set is the set of the URLs ever enqueued (the seeds and the
\* discovered ones), each requested exactly once.
C7_RunToCompletion ==
  /\ \A r \in Runs : (run[r].pc # "idle") ~> (run[r].pc = "done")
  /\ [](\A r \in Runs :
          run[r].pc = "done" =>
            /\ pages = <<>>
            /\ processedPages = {u \in PageUrls : count[u].enqueued >= 1}
            /\ \A u \in processedPages : count[u].fetched = 1)

C7_Witness ==
  /\ run[1].pc = "done"
  /\ processedPages = PageUrls
  /\ discovered = PageUrls
  /\ \A u \in PageUrls : count[u].fetched = 1

\* C8: when the fetch or the write of a file throws, _saveFiles is at the
\* next file of the same batch, for the same extractor and page, and run() is
\* not rejected; the file's path is as it was, or holds the empty or short
\* file that the failed write left.
C8_FileFailureIsolation ==
  \A r \in DOMAIN run :
    (ev.type = "fileErr" /\ ev.run = r) =>
      /\ run[r].pc = "saveFiles"
      /\ run[r].file = ev.file + 1
      /\ run[r].ext = ev.ext
      /\ run[r].url = ev.url
      /\ active = r
      /\ IF ev.left # <<>>
         THEN /\ ev.path \in DOMAIN disk
              /\ disk[ev.path] = ev.left[1]
              /\ disk[ev.path].kind = "file"
         ELSE /\ (ev.path \in DOMAIN disk) = (Len(ev.prior) # 0)
              /\ (Len(ev.prior) # 0 => disk[ev.path] = ev.prior[1])

C8_Witness ==
  \E r \in DOMAIN run :
    /\ ev.type = "fileErr"
    /\ ev.run = r
    /\ run[r].file <= Len(run[r].fileUrls)
    /\ Len(GetPageUrls(extractors[run[r].ext], run[r].url)) > 0
    /\ run[r].ext < Len(extractors)
    /\ pages # <<>>

\* C9: a fetched file shorter than file.minSize is not written and raises
\* nothing; a file of minSize bytes or more is written; either way
\* _saveFiles goes on with the next file.
C9_UndersizedSkip ==
  \A r \in DOMAIN run :
    (ev.type = "fileOk" /\ ev.run = r) =>
      LET minSize == ExpectedOption(extractors[ev.ext], <<"file", "minSize">>)
      IN  /\ run[r].pc = "saveFiles"
          /\ run[r].file = ev.file + 1
          /\ ev.size < minSize =>
               /\ (ev.path \in DOMAIN disk) = (Len(ev.prior) # 0)
               /\ (Len(ev.prior) # 0 => disk[ev.path] = ev.prior[1])
          /\ ev.size >= minSize =>
               /\ ev.path \in DOMAIN disk
               /\ disk[ev.path] = [kind |-> "file", value |-> ev.size]

C9_Witness ==
  \E r \in DOMAIN run :
    /\ ev.type = "fileOk"
    /\ ev.run = r
    /\ ev.size < GetOption(<<"file", "minSize">>)
    /\ ev.path \notin DOMAIN disk
    /\ run[r].file <= Len(run[r].fileUrls)

RECURSIVE MergedThrough(_, _, _, _)
\* the metadata of a page after the extractors `matched` that are no later
\* than extractor `last` were applied to it, in order
MergedThrough(base, url, matched, last) ==
  IF matched = <<>> \/ Head(matched) > last THEN base
  ELSE MergedThrough(Overlay(base, GetMetadata(extractors[Head(matched)], url)),
                     url, Tail(matched), last)

\* C10 as claimed: when a page is done, every info.json written for it holds
\* the metadata merged over all the extractors that matched the page.
C10_SnapshotComplete ==
  \A r \in DOMAIN run :
    (ev.type = "pageEnd" /\ ev.run = r) =>
      \A i \in 1..Len(page[r].infoWrites) :
        page[r].infoWrites[i].content = [kind |-> "json", value |-> heap[run[r].metadata]]

\* C10 as amended: an info.json holds the page's metadata merged up to and
\* including the extractor that writes it, and when the page is done each
\* directory holds the info.json of the last extractor that wrote there.
C10_SnapshotThroughWriter ==
  \A r \in DOMAIN run :
    /\ (ev.type = "info" /\ ev.run = r) =>
         disk[Append(ev.dir, "info.json")] =
           [kind |-> "json",
            value |-> MergedThrough(page[r].base, run[r].url, page[r].matched, ev.ext)]
    /\ (ev.type = "pageEnd" /\ ev.run = r) =>
         \A i \in 1..Len(page[r].infoWrites) :
           LET w == page[r].infoWrites[i]
           IN  /\ w.content.value =
                    MergedThrough(page[r].base, run[r].url, page[r].matched, w.ext)
               /\ (\A j \in (i + 1)..Len(page[r].infoWrites) :
                     page[r].infoWrites[j].dir # w.dir)
                    => disk[Append(w.dir, "info.json")] = w.content

C10_Witness ==
  \E r \in DOMAIN run :
    /\ ev.type = "pageEnd"
    /\ ev.run = r
    /\ Len(page[r].infoWrites) = 2
    /\ page[r].infoWrites[1].dir # page[r].infoWrites[2].dir
    /\ page[r].infoWrites[1].content # page[r].infoWrites[2].content
    /\ disk[Append(page[r].infoWrites[1].dir, "info.json")] = page[r].infoWrites[1].content

\* C11: a file that exists at its path while file.overwrite is not true is
\* not requested and the disk stays as it is; a file is requested only when
\* overwrite is true or nothing exists at its path.
C11_OverwriteGuard ==
  \A r \in DOMAIN run :
    LET overwrite == ExpectedOption(extractors[ev.ext], <<"file", "overwrite">>)
    IN  /\ (ev.type = "fileExists" /\ ev.run = r) =>
             /\ overwrite # TRUE
             /\ ev.path \in DOMAIN ev.before
             /\ disk = ev.before
             /\ run[r].pc = "saveFiles"
             /\ run[r].file = ev.file + 1
        /\ (ev.type \in {"fileReq", "fileDryrun"} /\ ev.run = r) =>
             (overwrite = TRUE \/ ev.path \notin DOMAIN ev.before)

\* a file that exists is requested again because overwrite is true, and in
\* another execution an existing file is skipped
C11_Witness ==
  /\ ev.type = "fileReq"
  /\ ev.path \in DOMAIN ev.before
  /\ ev.before[ev.path].kind = "file"
  /\ options["file"]["overwrite"] = TRUE

\* the resource files on disk are the ones that were there at construction
NoFileWritten ==
  \A path \in DOMAIN disk :
    disk[path].kind = "file" =>
      path \in DOMAIN startDisk /\ startDisk[path] = disk[path]

\* C12: an invocation started with dryrun = true requests no file and writes
\* no resource file; it skips a file as a dry run only after the existence
\* check let the file pass; and it returns with the queue empty and every
\* URL ever enqueued visited and requested once, as a normal run does.
C12_Dryrun ==
  \A r \in DOMAIN run :
    run[r].dry =>
      /\ dryrun
      /\ run[r].pc # "fetchFile"
      /\ ~(ev.type \in {"fileReq", "fileOk", "fileErr"} /\ ev.run = r)
      /\ NoFileWritten
      /\ (ev.type = "fileDryrun" /\ ev.run = r) =>
           \/ ExpectedOption(extractors[ev.ext], <<"file", "overwrite">>) = TRUE
           \/ ev.path \notin DOMAIN disk
      /\ run[r].pc = "done" =>
           /\ pages = <<>>
           /\ processedPages = {u \in PageUrls : count[u].enqueued >= 1}
           /\ \A u \in processedPages : count[u].fetched = 1

\* in a dry run a file is skipped because it exists, on a page on which an
\* earlier extractor had its files skipped as a dry run
C12_Witness ==
  \E r \in DOMAIN run :
    /\ run[r].dry
    /\ ev.type = "fileExists"
    /\ ev.run = r
    /\ Len(page[r].infoWrites) = 2
    /\ page[r].infoWrites[1].dir # page[r].infoWrites[2].dir

RECURSIVE JoinedFrom(_, _)
\* the segments from index `from` on, joined by '_'
JoinedFrom(segments, from) ==
  IF from = Len(segments) THEN segments[from]
  ELSE segments[from] \o "_" \o JoinedFrom(segments, from + 1)

\* the tail rule: the last min(nameLevel, k) of the k segments, all for 0
TailName(segments, nameLevel) ==
  LET k == Len(segments)
      taken == IF nameLevel = 0 THEN k
               ELSE IF nameLevel < k THEN nameLevel ELSE k
  IN  JoinedFrom(segments, k - taken + 1)

\* C13: _getFilename returns the last min(nameLevel, k) of the k segments of
\* the URL without its scheme and query, joined by '_', all k for nameLevel 0;
\* it throws exactly when that name is empty.
C13_FilenameTailRule ==
  (ev.type = "return" /\ ev.fn = "_getFilename") =>
    LET name == TailName(ev.input.segments, options["file"]["nameLevel"])
    IN  IF name = "" THEN Len(ev.result) = 0
        ELSE Len(ev.result) = 1 /\ ev.result[1] = name

\* https://ex.com/a/b/c.jpg?x=1 with nameLevel 2 returned b_c.jpg
C13_Witness ==
  /\ ev.type = "return"
  /\ ev.fn = "_getFilename"
  /\ ev.input.fileUrl = <<"https://", "ex.com", "/", "a", "/", "b", "/", "c.jpg", "?", "x=1">>
  /\ options["file"]["nameLevel"] = 2
  /\ ev.result = <<"b_c.jpg">>

\* C14: a string selector yields the trimmed text itself when exactly one
\* element matches and the sequence of the trimmed texts, in document order,
\* when none or several match.
C14_SingleMatchCollapse ==
  (ev.type = "return" /\ ev.fn = "_getMetadata") =>
    IF Len(ev.texts) = 1
    THEN ev.result.kind = "string" /\ ev.result.value = Trim(ev.texts[1])
    ELSE /\ ev.result.kind = "array"
         /\ Len(ev.result.value) = Len(ev.texts)
         /\ \A i \in 1..Len(ev.texts) : ev.result.value[i] = Trim(ev.texts[i])

C14_Witness ==
  /\ ev.type = "return"
  /\ ev.fn = "_getMetadata"
  /\ ev.texts = << " t0 " >>
  /\ ev.result = [kind |-> "string", value |-> "t0"]

\* the sum of a counter over the page URLs
Total(field) == count[P0][field] + count[P1][field] + count[P2][field]

RECURSIVE MatchingFrom(_, _)
\* the extractors from index i on that match the page at `url`, in order
MatchingFrom(i, url) ==
  IF i > Len(extractors) THEN <<>>
  ELSE (IF Has(extractors[i], "isMatched") /\ ~extractors[i]["isMatched"][url]
        THEN <<>> ELSE <<i>>)
       \o MatchingFrom(i + 1, url)

\* C15: the page URLs of an extractor are pushed when every file of its batch
\* has been saved or skipped; a page ends when every extractor that matches
\* it has been applied, in declaration order, and nothing is dequeued while a
\* page is in progress; at most one request, for a page or for a file, is in
\* flight.
C15_StepOrdering ==
  \A r \in DOMAIN run :
    /\ (ev.type = "enqueue" /\ ev.run = r) => ev.handled = ev.batch
    /\ run[r].pc = "pageUrls" => run[r].file = Len(run[r].fileUrls) + 1
    /\ (ev.type = "pageEnd" /\ ev.run = r) =>
         page[r].matched = MatchingFrom(1, run[r].url)
    /\ run[r].pc \notin {"idle", "loop", "done"} =>
         Total("dequeued") = page[r].org[1].seq
    /\ LET pagesInFlight == Total("fetched") - Total("applied") - Total("rejected")
            filesInFlight == page[r].requested - page[r].settled
        IN  /\ pagesInFlight \in {0, 1}
            /\ filesInFlight \in {0, 1}
            /\ pagesInFlight + filesInFlight <= 1
            /\ pagesInFlight = 1 <=> run[r].pc = "fetchPage"
            /\ filesInFlight = 1 <=> run[r].pc = "fetchFile"

\* the second extractor of a page pushes page URLs after a batch of which a
\* file was requested, with a work item of the first extractor in the queue
C15_Witness ==
  \E r \in DOMAIN run :
    /\ ev.type = "enqueue"
    /\ ev.run = r
    /\ ev.ext = 2
    /\ ev.batch >= 1
    /\ ev.n >= 1
    /\ page[r].settled >= 1
    /\ Len(page[r].matched) = 2
    /\ Len(pages) > ev.n


\* the URLs an extractor finds on a page through its pageSelector, and the
\* ones its additionalExtractor.page returns, both made absolute
SelectorUrls(e, url) ==
  IF Has(extractors[e], "pageSelector")
  THEN ResolveAll(AllHrefs(Elements(url, extractors[e]["pageSelector"])), url)
  ELSE <<>>

AdditionalUrls(e, url) ==
  IF Has(extractors[e], "additionalExtractor")
     /\ Has(extractors[e]["additionalExtractor"], "page")
  THEN ResolveAll(extractors[e]["additionalExtractor"]["page"][url], url)
  ELSE <<>>

\* C16: the k-th work item dequeued is the k-th work item enqueued (the seeds
\* hold the first ranks, in the given order); the queue holds the items not
\* yet dequeued in the order of their ranks; a push appends the selector URLs
\* of the extractor, then its additional URLs, and the pushes of one page are
\* in the order of the extractors; when run() returns every item enqueued has
\* been dequeued, once.
C16_FifoOrder ==
  /\ Len(pages) = Total("enqueued") - Total("dequeued")
  /\ \A i \in 1..Len(pages) :
       /\ origin[i].seq = Total("dequeued") + i
       /\ pages[i].url = origin[i].url
       /\ origin[i].from = <<>> => \A j \in 1..i : origin[j].from = <<>>
  /\ \A r \in DOMAIN run :
       /\ (ev.type \in {"pageReq", "skip"} /\ ev.run = r) =>
            /\ page[r].org[1].seq = Total("dequeued")
            /\ page[r].org[1].url = run[r].url
       /\ (ev.type = "enqueue" /\ ev.run = r) =>
            /\ ev.n <= Len(pages)
            /\ [i \in 1..ev.n |-> pages[Len(pages) - ev.n + i].url]
                 = SelectorUrls(ev.ext, ev.url) \o AdditionalUrls(ev.ext, ev.url)
       /\ (ev.type = "exit" /\ ev.run = r) =>
            \A u \in PageUrls : count[u].dequeued = count[u].enqueued
  /\ \A i, j \in 1..Len(origin) :
       (i < j /\ origin[i].from = origin[j].from) => origin[i].ext <= origin[j].ext

\* a URL that a page's extractor found through its selector is dequeued while
\* the URL the same extractor's additionalExtractor returned, pushed with it,
\* is the next in the queue
C16_Witness ==
  \E r \in DOMAIN run :
    /\ ev.type \in {"pageReq", "skip"}
    /\ ev.run = r
    /\ page[r].org[1].from # <<>>
    /\ Len(pages) >= 1
    /\ origin[1].from = page[r].org[1].from
    /\ origin[1].ext = page[r].org[1].ext
    /\ run[r].url \in Range(SelectorUrls(origin[1].ext, origin[1].from))
    /\ pages[1].url \in Range(AdditionalUrls(origin[1].ext, origin[1].from))
    /\ pages[1].url # run[r].url


\* C17: a URL is in the visited set when its request is made and as long as
\* the request is pending, the visited set never loses a URL, and a URL whose
\* request was rejected has been requested once, however often it is
\* dequeued afterwards.
C17_FailedPagesAbandoned ==
  [][ /\ processedPages \subseteq processedPages'
      /\ \A r \in DOMAIN run :
           /\ (ev'.type = "pageReq" /\ ev'.run = r) =>
                /\ ev'.url \notin processedPages
                /\ ev'.url \in processedPages'
                /\ count'[ev'.url].fetched = 1
           /\ run'[r].pc = "fetchPage" => run'[r].url \in processedPages'
           /\ (ev'.type = "throw" /\ ev'.run = r /\ ev'.at = "fetch") =>
                /\ ev'.url \in processedPages'
                /\ pages' = pages
      /\ \A u \in PageUrls :
           count'[u].rejected >= 1 =>
             /\ u \in processedPages'
             /\ count'[u].fetched = 1
             /\ count'[u].applied = 0
             /\ count'[u].dequeued = 1 + count'[u].skipped ]_vars

\* the first seed's request was rejected; the URL, found again on a page
\* processed afterwards, is dequeued again and skipped
C17_Witness ==
  \E r \in DOMAIN run :
    /\ ev.type = "skip"
    /\ ev.run = r
    /\ ev.url = P0
    /\ count[P0].rejected = 1
    /\ count[P0].fetched = 1
    /\ page[r].org[1].from # <<>>
    /\ count[page[r].org[1].from].applied = 1


\* C18: a fetched page that no extractor matches is in the visited set and
\* leaves the disk and the queue as they were when it was dequeued: no
\* directory, no info.json, no file request, no work item; an extractor
\* without isMatched is never passed over by the loop, and is among the
\* extractors applied to every page whose loop ends.
C18_NoExtractorMatched ==
  \A r \in DOMAIN run :
    /\ (ev.type = "pageEnd" /\ ev.run = r) =>
         /\ ev.found <=> MatchingFrom(1, ev.url) # <<>>
         /\ \A e \in 1..Len(extractors) :
              ~Has(extractors[e], "isMatched") => e \in Range(page[r].matched)
         /\ MatchingFrom(1, ev.url) = <<>> =>
              /\ ev.url \in processedPages
              /\ count[ev.url].applied = 1
              /\ page[r].matched = <<>>
              /\ page[r].infoWrites = <<>>
              /\ page[r].requested = 0
              /\ page[r].pushed = 0
              /\ disk = page[r].disk0
              /\ \A i \in 1..Len(origin) : origin[i].from # ev.url
    /\ (ev.type = "noMatch" /\ ev.run = r) =>
         /\ Has(extractors[ev.ext], "isMatched")
         /\ ~extractors[ev.ext]["isMatched"][ev.url]
    /\ (run[r].pc \in {"extractors", "saveDir"} /\ MatchingFrom(1, run[r].url) = <<>>) =>
         /\ page[r].matched = <<>>
         /\ disk = page[r].disk0
         /\ page[r].pushed = 0

\* a fetched page whose only extractor has an isMatched that returns false:
\* the page ends with nothing found, while the queue still holds work
C18_Witness ==
  \E r \in DOMAIN run :
    /\ ev.type = "pageEnd"
    /\ ev.run = r
    /\ ~ev.found
    /\ Len(extractors) >= 1
    /\ count[ev.url].applied = 1
    /\ ev.url \in discovered
    /\ Len(pages) >= 1
    /\ disk # <<>>


\* C19: when the application of an extractor to a page throws, the queue is
\* as the earlier extractors of the page left it (their work items at the
\* back), the disk has lost nothing (their info.json files are there, and
\* every resource file is as it was) and the
\* page is in the visited set; a page abandoned at extractor k was requested
\* and handed to the extractors once, and only extractors before k have ever
\* pushed page URLs for it; run() returns only when every work item has been
\* dequeued.
C19_PartialPage ==
  /\ \A r \in DOMAIN run :
       /\ (ev.type = "throw" /\ ev.run = r /\ ev.at # "fetch") =>
            /\ pages = ev.queue
            /\ \A q \in DOMAIN ev.disk :
                 /\ q \in DOMAIN disk
                 /\ ev.disk[q].kind = "file" => disk[q] = ev.disk[q]
            /\ ev.url \in processedPages
            /\ count[ev.url].abandonedAt = ev.ext
            /\ page[r].pushed <= Len(pages)
            /\ \A i \in 1..page[r].pushed :
                 LET o == origin[Len(origin) - page[r].pushed + i]
                 IN  o.from = ev.url /\ o.ext < ev.ext /\ o.ext \in Range(page[r].matched)
            /\ \A i \in 1..Len(page[r].infoWrites) :
                 Append(page[r].infoWrites[i].dir, "info.json") \in DOMAIN disk
            /\ \A q \in DOMAIN page[r].disk0 : q \in DOMAIN disk
       /\ (ev.type = "exit" /\ ev.run = r) =>
            pages = <<>> /\ Total("dequeued") = Total("enqueued")
  /\ \A u \in PageUrls :
       count[u].abandonedAt > 0 =>
         /\ u \in processedPages
         /\ count[u].fetched = 1
         /\ count[u].applied = 1
         /\ count[u].pushedUpTo < count[u].abandonedAt
         /\ \A i \in 1..Len(origin) :
              origin[i].from = u => origin[i].ext < count[u].abandonedAt

\* the second matching extractor of a page throws after the first one wrote
\* a file and pushed page URLs that are still in the queue
C19_Witness ==
  \E r \in DOMAIN run :
    /\ ev.type = "throw"
    /\ ev.run = r
    /\ ev.at \in {"extract", "saveDir", "filename", "pageUrls"}
    /\ ev.ext = 2
    /\ Len(page[r].matched) = 2
    /\ page[r].pushed >= 1
    /\ \E q \in DOMAIN disk \ DOMAIN page[r].disk0 : disk[q].kind = "file"
    /\ HasPageHook(extractors[2])


\* C20: with two invocations of run() on one instance, under every
\* interleaving every work item is dequeued once, by one invocation (the
\* k-th dequeue takes the item of rank k, and the items dequeued and the
\* items queued are the items enqueued), a URL is requested at most once,
\* every other dequeue of it being a skip, and it is in the visited set from
\* its dequeue on; two invocations are never at the same page.
C20_OverlappingRuns ==
  /\ Len(pages) + Total("dequeued") = Total("enqueued")
  /\ \A u \in PageUrls :
       /\ count[u].fetched <= 1
       /\ count[u].dequeued = count[u].fetched + count[u].skipped
       /\ count[u].dequeued >= 1 => u \in processedPages /\ count[u].fetched = 1
  /\ \A r \in DOMAIN run :
       /\ (ev.type \in {"pageReq", "skip"} /\ ev.run = r) =>
            /\ page[r].org[1].seq = Total("dequeued")
            /\ page[r].org[1].url = ev.url
            /\ ev.url \in processedPages
       /\ \A q \in DOMAIN run \ {r} :
            /\ (page[r].org # <<>> /\ page[q].org # <<>>) =>
                 page[r].org[1].seq # page[q].org[1].seq
            /\ (run[r].pc \notin {"idle", "loop", "done"}
                /\ run[q].pc \notin {"idle", "loop", "done"}) => run[r].url # run[q].url
  /\ (\A r \in DOMAIN run : run[r].pc = "done") =>
       /\ pages = <<>>
       /\ \A u \in PageUrls : u \in processedPages <=> count[u].enqueued >= 1

\* while one invocation is suspended at the request of a page or of one of
\* its files, the other one dequeues the same URL and skips it
C20_Witness ==
  \E r, q \in DOMAIN run :
    /\ r # q
    /\ run[r].pc \in {"fetchPage", "fetchFile"}
    /\ ev.type = "skip"
    /\ ev.run = q
    /\ ev.url = run[r].url
    /\ count[ev.url].fetched = 1
    /\ count[ev.url].skipped = 1

====
